---- MODULE Spec2Model ----
(***************************************************************************)
(* A model of python-db-interface: Model (the per-table statement builder  *)
(* of Model.py), Database and Template (Database.py) and the collaborator  *)
(* DatabaseConnection (DatabaseConnection.py).                             *)
(*                                                                         *)
(* Python values are tagged records ([t |-> "None"], [t |-> "str", ...]);  *)
(* a dict is the sequence of its <<key, value>> items in insertion order;  *)
(* a SQL statement is a record of its clauses, identifiers kept as the     *)
(* names given to sql.Identifier and every %s / sql.Placeholder() kept as  *)
(* the string "%s".                                                        *)
(***************************************************************************)
EXTENDS Integers, Sequences, FiniteSets, TLC

VARIABLES
    model,      \* the Model object under construction / constructed
    call,       \* the operation last invoked, with its arguments
    outcome,    \* "ok", or the exception the operation raised
    sent,       \* the collaborator calls made by the last operation, in order
    returned,   \* the value the last operation returned
    db,         \* the Database object: template, models_names
    tables,     \* the tables that exist in the database behind the connection
    template    \* the Template object returned by Template.loadFromFile

vars == <<model, call, outcome, sent, returned, db, tables, template>>

----------------------------------------------------------------------------
(* Bounds *)

MaxCols == 2        \* columns of a model definition, keys of **values
MaxPks == 2         \* entries of primary_keys
MaxWhere == 2       \* entries of the where mapping of select
MaxTables == 2      \* models of a template

NamePool == <<"id", "name", "age", "seq">>
ColNames == {NamePool[i] : i \in 1..(IF MaxCols < 4 THEN MaxCols ELSE 4)}

TablePool == <<"users", "orders", "items", "logs">>
TableNames == {TablePool[i] : i \in 1..(IF MaxTables < 4 THEN MaxTables ELSE 4)}

----------------------------------------------------------------------------
(* Python values *)

PyNone == [t |-> "None"]
PyStr(s) == [t |-> "str", v |-> s]
PyInt(n) == [t |-> "int", v |-> n]
PyList(s) == [t |-> "list", v |-> s]
PyDict(items) == [t |-> "dict", v |-> items]

\* Python truthiness: None, "", [], {} and 0 are falsy
Truthy(x) ==
    CASE x.t = "None" -> FALSE
      [] x.t = "str" -> x.v # ""
      [] x.t = "int" -> x.v # 0
      [] x.t = "list" -> Len(x.v) > 0
      [] x.t = "dict" -> Len(x.v) > 0

\* a dict as the sequence of its items
Keys(items) == [i \in 1..Len(items) |-> items[i][1]]
Vals(items) == [i \in 1..Len(items) |-> items[i][2]]
KeySet(items) == {items[i][1] : i \in 1..Len(items)}
Get(items, k) == items[CHOOSE i \in 1..Len(items) : items[i][1] = k][2]
Range(s) == {s[i] : i \in 1..Len(s)}

SeqsUpTo(S, n) == UNION {[1..k -> S] : k \in 0..n}
DistinctSeqsUpTo(S, n) ==
    {s \in SeqsUpTo(S, n) : \A i, j \in 1..Len(s) : s[i] = s[j] => i = j}
\* the dicts with at most n items, keys from K and values from V
DictsUpTo(K, V, n) ==
    UNION {{[i \in 1..Len(ks) |-> <<ks[i], vs[i]>>] : vs \in [1..Len(ks) -> V]} :
           ks \in DistinctSeqsUpTo(K, n)}

----------------------------------------------------------------------------
(* Column type strings, as the sequences of their characters *)

SERIAL == <<"S", "E", "R", "I", "A", "L">>
BIGSERIAL == <<"B", "I", "G", "S", "E", "R", "I", "A", "L">>
TEXT == <<"T", "E", "X", "T">>
TypeStrings == {SERIAL, BIGSERIAL, TEXT}

\* Python's `needle in haystack` on strings
Contains(haystack, needle) ==
    \E i \in 0..(Len(haystack) - Len(needle)) :
        \A j \in 1..Len(needle) : haystack[i + j] = needle[j]

----------------------------------------------------------------------------
(* Inputs *)

Values == {PyNone, PyInt(30)}
LastRowIds == {PyInt(1)}
RowLists == {<<>>, <<"row">>}

NameArgs == {PyNone, PyStr(""), PyStr("users")}
PrimaryKeysArgs ==
    {PyNone, PyStr("id")} \cup {PyList(s) : s \in DistinctSeqsUpTo(ColNames, MaxPks)}
ColumnsArgs ==
    {PyNone} \cup {PyDict(d) : d \in DictsUpTo(ColNames, TypeStrings, MaxCols)}
\* model_definition; a key that is missing from the dict reads as None (dict.get)
ModelDefinitions ==
    [name : NameArgs, primary_keys : PrimaryKeysArgs, columns : ColumnsArgs]

\* what the collaborator does with a statement: raise, or answer
Raise == [raises |-> TRUE, value |-> PyNone]
Answer(v) == [raises |-> FALSE, value |-> v]

----------------------------------------------------------------------------
(* Model.__init__ *)

NoModel ==
    [constructed |-> FALSE, name |-> "", primary_keys |-> <<>>,
     columns |-> <<>>, serial_primary_keys |-> <<>>]

\* [k for k, v in self.columns.items() if "SERIAL" in v]
SerialPrimaryKeys(columns) ==
    SelectSeq(Keys(columns), LAMBDA k : Contains(Get(columns, k), SERIAL))

ModelInit(def) ==
    IF def.columns.t # "dict"
    THEN [outcome |-> "AttributeError", model |-> NoModel]
    ELSE IF ~Truthy(def.name)
    THEN [outcome |-> "RequiredParameterNotSetError", model |-> NoModel]
    ELSE IF ~Truthy(def.primary_keys) \/ def.primary_keys.t # "list"
    THEN [outcome |-> "RequiredParameterNotSetError", model |-> NoModel]
    ELSE IF ~Truthy(def.columns)
    THEN [outcome |-> "RequiredParameterNotSetError", model |-> NoModel]
    ELSE IF \E pk \in Range(def.primary_keys.v) : pk \notin KeySet(def.columns.v)
    THEN [outcome |-> "ValueError", model |-> NoModel]
    ELSE [outcome |-> "ok",
          model |-> [constructed |-> TRUE,
                     name |-> def.name.v,
                     primary_keys |-> def.primary_keys.v,
                     columns |-> def.columns.v,
                     serial_primary_keys |-> SerialPrimaryKeys(def.columns.v)]]

----------------------------------------------------------------------------
(* DatabaseConnection *)

\* one call of the collaborator, as the Model hands it over
Execute(query, values, fetch) ==
    [method |-> "execute", query |-> query, values |-> values, fetch |-> fetch]
ExecuteReturnId(query, values) ==
    [method |-> "execute_return_id", query |-> query, values |-> values,
     fetch |-> FALSE]

----------------------------------------------------------------------------
(* Model.insertRow *)

\* a faulty variant: the columns taken in declaration order instead of the caller's
ColumnsToInsertDeclared(m, values) ==
    SelectSeq(Keys(m.columns), LAMBDA col : col \in KeySet(values))

\* [col for col in values if col in self.columns]
ColumnsToInsert(m, values) ==
    SelectSeq(Keys(values), LAMBDA col : col \in KeySet(m.columns))

\* [values[col] for col in columns_to_insert]
ValuesToInsert(values, columns_to_insert) ==
    [i \in 1..Len(columns_to_insert) |-> Get(values, columns_to_insert[i])]

\* len(columns_to_insert)+len(self.serial_primary_keys) < len(self.columns)
MissingValues(m, columns_to_insert) ==
    Len(columns_to_insert) + Len(m.serial_primary_keys) < Len(m.columns)

\* a faulty variant: the primary keys not filtered out of the SET list
UpdatedColumnsUnfiltered(m, columns_to_insert) == columns_to_insert

\* for col in columns_to_insert if col not in self.primary_keys
UpdatedColumns(m, columns_to_insert) ==
    SelectSeq(columns_to_insert, LAMBDA col : col \notin Range(m.primary_keys))

\* "{col} = EXCLUDED.{col}", one per updated column
Updates(cols) == [i \in 1..Len(cols) |-> [col |-> cols[i], excluded |-> cols[i]]]

ConflictClause(m, update, columns_to_insert) ==
    IF update
    THEN [action |-> "DO UPDATE SET",
          target |-> m.primary_keys,
          updates |-> Updates(UpdatedColumns(m, columns_to_insert))]
    ELSE [action |-> "DO NOTHING", target |-> <<>>, updates |-> <<>>]

InsertQuery(m, update, columns_to_insert, values_to_insert) ==
    [kind |-> "INSERT INTO",
     table |-> m.name,
     columns |-> columns_to_insert,
     placeholders |-> [i \in 1..Len(values_to_insert) |-> "%s"],
     conflict_clause |-> ConflictClause(m, update, columns_to_insert),
     returning |-> "id"]

InsertRow(m, update, values, resp) ==
    LET columns_to_insert == ColumnsToInsert(m, values)
        values_to_insert == ValuesToInsert(values, columns_to_insert)
    IN  IF MissingValues(m, columns_to_insert)
        THEN [outcome |-> "ValueError", sent |-> <<>>, returned |-> PyNone]
        ELSE [outcome |-> IF resp.raises THEN "psycopg2.Error" ELSE "ok",
              sent |-> <<ExecuteReturnId(
                           InsertQuery(m, update, columns_to_insert, values_to_insert),
                           values_to_insert)>>,
              returned |-> resp.value]

----------------------------------------------------------------------------
(* Model.deleteRow *)

\* a faulty variant: only too few values rejected
ArityMismatchShorter(m, row_values) == Len(row_values) < Len(m.primary_keys)

\* len(row_values) != len(self.primary_keys)
ArityMismatch(m, row_values) == Len(row_values) # Len(m.primary_keys)

\* "{pk} = %s" for pk in self.primary_keys, joined by AND
Conditions(cols) == [i \in 1..Len(cols) |-> [col |-> cols[i], value |-> "%s"]]

DeleteQuery(m) ==
    [kind |-> "DELETE FROM", table |-> m.name,
     where_clause |-> Conditions(m.primary_keys)]

DeleteRow(m, row_values, resp) ==
    IF ArityMismatch(m, row_values)
    THEN [outcome |-> "ValueError", sent |-> <<>>, returned |-> PyNone]
    ELSE [outcome |-> IF resp.raises THEN "psycopg2.Error" ELSE "ok",
          sent |-> <<Execute(DeleteQuery(m), row_values, FALSE)>>,
          returned |-> PyNone]

----------------------------------------------------------------------------
(* Model.select *)

\* the identifiers of an optional list argument; '*' / no clause when falsy
ColumnsSql(columns) == IF Truthy(columns) THEN columns.v ELSE <<"*">>
WhereSql(where) == IF Truthy(where) THEN Conditions(Keys(where.v)) ELSE <<>>
OrderSql(order) == IF Truthy(order) THEN order.v ELSE <<>>
\* if limit is not None: "LIMIT %s"
LimitSql(limit) == IF limit.t # "None" THEN <<"LIMIT", "%s">> ELSE <<>>

SelectQuery(m, columns, where, order, limit) ==
    [kind |-> "SELECT", columns |-> ColumnsSql(columns), table |-> m.name,
     where |-> WhereSql(where), order |-> OrderSql(order),
     limit |-> LimitSql(limit)]

\* a faulty variant: `if limit:` in place of `if limit is not None:`
QueryParamsTruthyLimit(where, limit) ==
    (IF Truthy(where) THEN Vals(where.v) ELSE <<>>)
        \o (IF Truthy(limit) THEN <<limit>> ELSE <<>>)

\* list(where.values()) if where else [], then limit appended if not None
QueryParams(where, limit) ==
    (IF Truthy(where) THEN Vals(where.v) ELSE <<>>)
        \o (IF limit.t # "None" THEN <<limit>> ELSE <<>>)

Select(m, columns, where, order, limit, resp) ==
    [outcome |-> IF resp.raises THEN "psycopg2.Error" ELSE "ok",
     sent |-> <<Execute(SelectQuery(m, columns, where, order, limit),
                        QueryParams(where, limit), TRUE)>>,
     returned |-> resp.value]

----------------------------------------------------------------------------
(* Model.dropTable, Model.createTable *)

DropTableQuery(m) == [kind |-> "DROP TABLE IF EXISTS", table |-> m.name]

CreateTableQuery(m) ==
    [kind |-> "CREATE TABLE IF NOT EXISTS", table |-> m.name,
     columns |-> [i \in 1..Len(m.columns) |->
                    [col |-> m.columns[i][1], type |-> m.columns[i][2]]],
     primary_keys |-> m.primary_keys]

\* what the database does with a DDL statement that it accepts
ApplyStatement(tbls, query) ==
    IF query.kind = "DROP TABLE IF EXISTS"
    THEN tbls \ {query.table}
    ELSE tbls \cup {query.table}

----------------------------------------------------------------------------
(* Template.loadFromFile *)

DbKeys == <<"name", "host", "port", "username", "password">>
EnvNames == Range(DbKeys) \cup {"ENV"}
DbValues == {PyStr("ENV"), PyStr("literal")}
\* the process environment: a variable is unset (None) or holds a string
Environments == [EnvNames -> {PyNone, PyStr("from_env")}]
DatabaseSections ==
    {[i \in 1..Len(DbKeys) |-> <<DbKeys[i], vs[i]>>] : vs \in [1..Len(DbKeys) -> DbValues]}
TemplateFiles ==
    [ext : {"json", "txt"}, has_models : BOOLEAN, has_database : BOOLEAN,
     database : DatabaseSections]

NoTemplate == [loaded |-> FALSE, database |-> <<>>]

\* os.getenv(name, None)
Getenv(env, name) == env[name]

\* for k in data['database']: if data['database'][k] == "ENV": ... = getenv(data['database'][k], None)
SubstituteEnv(database, env) ==
    [i \in 1..Len(database) |->
        IF database[i][2] = PyStr("ENV")
        THEN <<database[i][1], Getenv(env, database[i][2].v)>>
        ELSE database[i]]

TemplateLoadFromFile(file, env) ==
    IF file.ext # "json"
    THEN [outcome |-> "ValueError", template |-> NoTemplate]
    ELSE IF ~file.has_models
    THEN [outcome |-> "ValueError", template |-> NoTemplate]
    ELSE IF ~file.has_database
    THEN [outcome |-> "ValueError", template |-> NoTemplate]
    ELSE [outcome |-> "ok",
          template |-> [loaded |-> TRUE,
                        database |-> SubstituteEnv(file.database, env)]]

----------------------------------------------------------------------------
(* Database *)

\* the model definition a template gives for a table
TableDefinition(name) ==
    [name |-> PyStr(name), primary_keys |-> PyList(<<"id">>),
     columns |-> PyDict(<<<<"id", SERIAL>>, <<"name", TEXT>>>>)]
TemplateModels == SeqsUpTo({TableDefinition(n) : n \in TableNames}, MaxTables)

\* Database.__init__
NewDatabase == [has_template |-> FALSE, models_names |-> <<>>, models |-> <<>>]

\* db.__dict__.update({name: model})
DictUpdate(items, k, v) ==
    IF k \in KeySet(items)
    THEN [i \in 1..Len(items) |-> IF items[i][1] = k THEN <<k, v>> ELSE items[i]]
    ELSE Append(items, <<k, v>>)

RECURSIVE AddModels(_, _)
AddModels(d, defs) ==
    IF defs = <<>> THEN d
    ELSE AddModels([d EXCEPT !.models = DictUpdate(@, Head(defs).name.v,
                                                   ModelInit(Head(defs)).model),
                             !.models_names = Append(@, Head(defs).name.v)],
                   Tail(defs))

DatabaseLoadFromTemplate(defs) ==
    AddModels([NewDatabase EXCEPT !.has_template = TRUE], defs)

GenerateEmptyDatabase == [NewDatabase EXCEPT !.has_template = TRUE]

\* Database._check: the exception it raises, or "ok"
Check(d) ==
    IF ~d.has_template THEN "ValueError"
    ELSE IF Len(d.models_names) = 0 THEN "ValueError"
    ELSE "ok"

\* DatabaseConnection.execute of one DDL statement: it raises when it is the
\* fail_at-th call of the operation, and is applied and committed otherwise
ExecuteDDL(st, query, fail_at) ==
    IF Len(st.sent) + 1 = fail_at
    THEN [outcome |-> "psycopg2.Error",
          sent |-> Append(st.sent, Execute(query, PyNone, FALSE)),
          tables |-> st.tables]
    ELSE [outcome |-> "ok",
          sent |-> Append(st.sent, Execute(query, PyNone, FALSE)),
          tables |-> ApplyStatement(st.tables, query)]

\* for k in self.models_names: getattr(self, k).createTable() / .dropTable()
RECURSIVE ForEachModel(_, _, _, _, _)
ForEachModel(d, names, method, st, fail_at) ==
    IF names = <<>> THEN st
    ELSE LET m == Get(d.models, Head(names))
             query == IF method = "dropTable" THEN DropTableQuery(m)
                                              ELSE CreateTableQuery(m)
             st1 == ExecuteDDL(st, query, fail_at)
         IN  IF st1.outcome # "ok" THEN st1
             ELSE ForEachModel(d, Tail(names), method, st1, fail_at)

CreateModels(d, st, fail_at) ==
    IF Check(d) # "ok" THEN [st EXCEPT !.outcome = Check(d)]
    ELSE ForEachModel(d, d.models_names, "createTable", st, fail_at)

DropModels(d, st, fail_at) ==
    IF Check(d) # "ok" THEN [st EXCEPT !.outcome = Check(d)]
    ELSE ForEachModel(d, d.models_names, "dropTable", st, fail_at)

\* a faulty variant: a failure of dropModels swallowed, createModels run all the same
ResetModelsSwallow(d, st, fail_at) ==
    IF Check(d) # "ok" THEN [st EXCEPT !.outcome = Check(d)]
    ELSE CreateModels(d, [DropModels(d, st, fail_at) EXCEPT !.outcome = "ok"], fail_at)

ResetModels(d, st, fail_at) ==
    IF Check(d) # "ok" THEN [st EXCEPT !.outcome = Check(d)]
    ELSE LET dropped == DropModels(d, st, fail_at)
         IN  IF dropped.outcome # "ok" THEN dropped
             ELSE CreateModels(d, dropped, fail_at)

----------------------------------------------------------------------------
(* Specification of one Model: construction, insertRow, deleteRow *)

NoCall == [op |-> "none", args |-> <<>>]

Init ==
    /\ model = NoModel
    /\ call = NoCall
    /\ outcome = "ok"
    /\ sent = <<>>
    /\ returned = PyNone
    /\ db = NewDatabase
    /\ tables = {}
    /\ template = NoTemplate

\* the caller takes the result of the last operation
Return ==
    /\ call.op # "none"
    /\ call' = NoCall
    /\ outcome' = "ok"
    /\ sent' = <<>>
    /\ returned' = PyNone
    /\ UNCHANGED <<model, db, tables, template>>

\* Model(db_connection, model_definition)
Construct ==
    /\ call.op = "none"
    /\ ~model.constructed
    /\ \E def \in ModelDefinitions :
        /\ model' = ModelInit(def).model
        /\ call' = [op |-> "Model", args |-> def]
        /\ outcome' = ModelInit(def).outcome
        /\ sent' = <<>>
        /\ returned' = PyNone
        /\ UNCHANGED <<db, tables, template>>

\* model.insertRow(update, **values)
InsertRowCall ==
    /\ call.op = "none"
    /\ model.constructed
    /\ \E update \in BOOLEAN, values \in DictsUpTo(ColNames, Values, MaxCols),
          resp \in {Raise} \cup {Answer(id) : id \in LastRowIds} :
        /\ call' = [op |-> "insertRow",
                    args |-> [update |-> update, values |-> values]]
        /\ outcome' = InsertRow(model, update, values, resp).outcome
        /\ sent' = InsertRow(model, update, values, resp).sent
        /\ returned' = InsertRow(model, update, values, resp).returned
        /\ UNCHANGED <<model, db, tables, template>>

\* model.deleteRow(row_values)
DeleteRowCall ==
    /\ call.op = "none"
    /\ model.constructed
    /\ \E row_values \in SeqsUpTo(Values, MaxPks + 1), resp \in {Raise, Answer(PyNone)} :
        /\ call' = [op |-> "deleteRow", args |-> [row_values |-> row_values]]
        /\ outcome' = DeleteRow(model, row_values, resp).outcome
        /\ sent' = DeleteRow(model, row_values, resp).sent
        /\ returned' = DeleteRow(model, row_values, resp).returned
        /\ UNCHANGED <<model, db, tables, template>>

Next == Construct \/ InsertRowCall \/ DeleteRowCall \/ Return

Spec == Init /\ [][Next]_vars

----------------------------------------------------------------------------
(* Specification of select on the Model of a template table *)

SelectLists == {PyNone} \cup {PyList(s) : s \in SeqsUpTo(ColNames, 1)}
WhereArgs == {PyNone} \cup {PyDict(d) : d \in DictsUpTo(ColNames, Values, MaxWhere)}
LimitArgs == {PyNone, PyInt(0), PyInt(1)}

InitSelect ==
    /\ model \in {ModelInit(TableDefinition(n)).model : n \in TableNames}
    /\ call = NoCall
    /\ outcome = "ok"
    /\ sent = <<>>
    /\ returned = PyNone
    /\ db = NewDatabase
    /\ tables = {}
    /\ template = NoTemplate

\* model.select(columns, where, order, limit)
SelectCall ==
    /\ call.op = "none"
    /\ model.constructed
    /\ \E columns \in SelectLists, where \in WhereArgs, order \in SelectLists,
          limit \in LimitArgs,
          resp \in {Raise} \cup {Answer(PyList(rows)) : rows \in RowLists} :
        /\ call' = [op |-> "select",
                    args |-> [columns |-> columns, where |-> where,
                              order |-> order, limit |-> limit, resp |-> resp]]
        /\ outcome' = Select(model, columns, where, order, limit, resp).outcome
        /\ sent' = Select(model, columns, where, order, limit, resp).sent
        /\ returned' = Select(model, columns, where, order, limit, resp).returned
        /\ UNCHANGED <<model, db, tables, template>>

NextSelect == SelectCall \/ Return

SpecSelect == InitSelect /\ [][NextSelect]_vars

----------------------------------------------------------------------------
(* Specification of a Database and the tables behind its connection *)

InitDatabase ==
    /\ model = NoModel
    /\ call = NoCall
    /\ outcome = "ok"
    /\ sent = <<>>
    /\ returned = PyNone
    /\ db = NewDatabase
    /\ tables \in SUBSET TableNames
    /\ template = NoTemplate

\* Database.loadFromTemplate(path), the template holding the models defs
LoadFromTemplateCall ==
    /\ call.op = "none"
    /\ \E defs \in TemplateModels :
        /\ db' = DatabaseLoadFromTemplate(defs)
        /\ call' = [op |-> "loadFromTemplate", args |-> <<>>]
        /\ outcome' = "ok"
        /\ sent' = <<>>
        /\ UNCHANGED <<model, returned, tables, template>>

\* Database.generateEmptyDatabase()
GenerateEmptyDatabaseCall ==
    /\ call.op = "none"
    /\ db' = GenerateEmptyDatabase
    /\ call' = [op |-> "generateEmptyDatabase", args |-> <<>>]
    /\ outcome' = "ok"
    /\ sent' = <<>>
    /\ UNCHANGED <<model, returned, tables, template>>

\* the collaborator raises on the fail_at-th statement of the call (0: on none)
FailAts == 0..(2 * MaxTables)

BulkCall(op, fail_at, result) ==
    /\ call.op = "none"
    /\ call' = [op |-> op,
                args |-> [tables_before |-> tables, fail_at |-> fail_at]]
    /\ outcome' = result.outcome
    /\ sent' = result.sent
    /\ tables' = result.tables
    /\ UNCHANGED <<model, returned, db, template>>

Started == [outcome |-> "ok", sent |-> <<>>, tables |-> tables]

\* db.createModels()
CreateModelsCall ==
    \E fail_at \in FailAts :
        BulkCall("createModels", fail_at, CreateModels(db, Started, fail_at))

\* db.dropModels()
DropModelsCall ==
    \E fail_at \in FailAts :
        BulkCall("dropModels", fail_at, DropModels(db, Started, fail_at))

\* db.resetModels()
ResetModelsCall ==
    \E fail_at \in FailAts :
        BulkCall("resetModels", fail_at, ResetModels(db, Started, fail_at))

NextDatabase ==
    \/ LoadFromTemplateCall
    \/ GenerateEmptyDatabaseCall
    \/ CreateModelsCall
    \/ DropModelsCall
    \/ ResetModelsCall
    \/ Return

SpecDatabase == InitDatabase /\ [][NextDatabase]_vars

----------------------------------------------------------------------------
(* Specification of template loading *)

\* Template.loadFromFile(file_path) under a process environment
LoadFromFileCall ==
    /\ call.op = "none"
    /\ \E file \in TemplateFiles, env \in Environments :
        /\ call' = [op |-> "loadFromFile", args |-> [file |-> file, env |-> env]]
        /\ outcome' = TemplateLoadFromFile(file, env).outcome
        /\ template' = TemplateLoadFromFile(file, env).template
        /\ UNCHANGED <<model, sent, returned, db, tables>>

NextTemplate == LoadFromFileCall \/ Return

SpecTemplate == Init /\ [][NextTemplate]_vars

----------------------------------------------------------------------------
(* The claims' vocabulary *)

\* a generated key: a primary-key column whose type string contains "SERIAL"
IsGeneratedKey(m, col) ==
    col \in Range(m.primary_keys) /\ Contains(Get(m.columns, col), SERIAL)

\* the position of key k in the caller's mapping
Position(items, k) == CHOOSE i \in 1..Len(items) : items[i][1] = k

\* the columns of s that are in set S, in the order of s
Restrict(s, S) == SelectSeq(s, LAMBDA x : x \in S)

InsertCalled == call.op = "insertRow"
\* the values cover every column that is not a generated primary key
CoversNonGenerated ==
    \A col \in KeySet(model.columns) :
        ~IsGeneratedKey(model, col) => col \in KeySet(call.args.values)

----------------------------------------------------------------------------
(* C1: when every column but one generated (SERIAL) primary key is supplied, *)
(* insertRow(update=false) is accepted and sends exactly one INSERT, and     *)
(* insertRow(update=true) fails with the missing-value error and sends       *)
(* nothing.                                                                  *)
C1_OmittedGeneratedKey ==
    (/\ InsertCalled
     /\ \E pk \in KeySet(model.columns) :
            /\ IsGeneratedKey(model, pk)
            /\ KeySet(call.args.values) \cap KeySet(model.columns)
                    = KeySet(model.columns) \ {pk})
    => IF call.args.update
       THEN outcome = "ValueError" /\ sent = <<>>
       ELSE /\ outcome # "ValueError"
            /\ Len(sent) = 1
            /\ sent[1].query.kind = "INSERT INTO"

(* C2: insertRow fails with the missing-value error, and calls neither       *)
(* execute nor execute_return_id, whenever some column that is not a         *)
(* generated primary key is absent from the values.                          *)
C2_MissingColumnRejected ==
    (InsertCalled /\ ~CoversNonGenerated)
    => outcome = "ValueError" /\ sent = <<>>

(* C3 as stated: for values covering all non-generated columns,              *)
(* insertRow(update=false) lists the included columns in descriptor order,   *)
(* one placeholder each, the parameters in that same order.                  *)
C3_DescriptorOrder ==
    (InsertCalled /\ ~call.args.update /\ CoversNonGenerated)
    => /\ Len(sent) = 1
       /\ sent[1].query.columns
            = Restrict(Keys(model.columns), KeySet(call.args.values))
       /\ Len(sent[1].query.placeholders) = Len(sent[1].query.columns)
       /\ Len(sent[1].values) = Len(sent[1].query.columns)
       /\ \A i \in 1..Len(sent[1].query.columns) :
            sent[1].values[i] = Get(call.args.values, sent[1].query.columns[i])

(* C3 as amended: for values covering all non-generated columns,             *)
(* insertRow(update=false) lists the supplied keys that are columns of the   *)
(* model, each once, in the order the caller passed them, with one           *)
(* placeholder each and the parameters in that same order.                   *)
C3_CallerOrder ==
    (InsertCalled /\ ~call.args.update /\ CoversNonGenerated)
    => /\ Len(sent) = 1
       /\ LET cols == sent[1].query.columns
              values == call.args.values
          IN  /\ Range(cols) = KeySet(values) \cap KeySet(model.columns)
              /\ \A i, j \in 1..Len(cols) :
                    i < j => Position(values, cols[i]) < Position(values, cols[j])
              /\ Len(sent[1].query.placeholders) = Len(cols)
              /\ \A i \in 1..Len(cols) : sent[1].query.placeholders[i] = "%s"
              /\ Len(sent[1].values) = Len(cols)
              /\ \A i \in 1..Len(cols) : sent[1].values[i] = Get(values, cols[i])

\* two columns supplied in the reverse of their declaration order, with
\* different values, and the INSERT sent
C3_Witness ==
    /\ InsertCalled /\ ~call.args.update /\ CoversNonGenerated
    /\ Len(sent) = 1
    /\ Len(sent[1].query.columns) >= 2
    /\ sent[1].query.columns
         # Restrict(Keys(model.columns), KeySet(call.args.values))
    /\ sent[1].values[1] # sent[1].values[2]

(* C4: an accepted insertRow with update=false carries ON CONFLICT DO        *)
(* NOTHING; with update=true the conflict target is the primary-key list in  *)
(* declaration order and the SET list assigns col = EXCLUDED.col once for    *)
(* each included column that is not a primary key, and for no other column.  *)
C4_ConflictClause ==
    (InsertCalled /\ Len(sent) = 1)
    => LET q == sent[1].query
           cc == q.conflict_clause
           cols == {cc.updates[i].col : i \in 1..Len(cc.updates)}
       IN  IF call.args.update
           THEN /\ cc.action = "DO UPDATE SET"
                /\ cc.target = model.primary_keys
                /\ cols = Range(q.columns) \ Range(model.primary_keys)
                /\ Len(cc.updates) = Cardinality(cols)
                /\ \A i \in 1..Len(cc.updates) :
                        cc.updates[i].excluded = cc.updates[i].col
                /\ (Len(cc.updates) > 0
                        => \E c \in Range(q.columns) : c \notin Range(model.primary_keys))
           ELSE cc = [action |-> "DO NOTHING", target |-> <<>>, updates |-> <<>>]

\* an upsert that includes a primary-key column and a column to update
C4_Witness ==
    /\ InsertCalled /\ call.args.update /\ Len(sent) = 1
    /\ Len(sent[1].query.conflict_clause.updates) > 0
    /\ \E c \in Range(sent[1].query.columns) : c \in Range(model.primary_keys)

(* C5: deleteRow with a list whose length differs from the number of         *)
(* primary keys fails with the arity error and sends nothing; with equal     *)
(* lengths it sends one DELETE whose conditions follow the primary keys in   *)
(* declaration order, row_values bound positionally.                         *)
C5_DeleteRow ==
    (call.op = "deleteRow")
    => IF Len(call.args.row_values) # Len(model.primary_keys)
       THEN outcome = "ValueError" /\ sent = <<>>
       ELSE /\ outcome # "ValueError"
            /\ Len(sent) = 1
            /\ sent[1].query.kind = "DELETE FROM"
            /\ sent[1].query.table = model.name
            /\ Len(sent[1].query.where_clause) = Len(model.primary_keys)
            /\ \A i \in 1..Len(model.primary_keys) :
                    sent[1].query.where_clause[i]
                        = [col |-> model.primary_keys[i], value |-> "%s"]
            /\ sent[1].values = call.args.row_values

\* more values than primary keys, rejected
C5_Witness ==
    /\ call.op = "deleteRow"
    /\ Len(call.args.row_values) > Len(model.primary_keys)
    /\ outcome = "ValueError"

(* C6: Model(...) fails with RequiredParameterNotSetError when the name is   *)
(* empty or missing, primary_keys is empty, missing or not a list, or        *)
(* columns is empty or missing; it fails with the invalid-primary-key error  *)
(* when a primary key is not a column; so a constructed Model has a          *)
(* non-empty name, primary-key list and columns holding every primary key.   *)
C6_ConstructionErrors ==
    /\ (call.op = "Model")
       => LET def == call.args
              missing == \/ ~Truthy(def.name)
                         \/ ~Truthy(def.primary_keys)
                         \/ def.primary_keys.t # "list"
                         \/ ~Truthy(def.columns)
          IN  /\ missing => outcome = "RequiredParameterNotSetError"
              /\ (/\ ~missing
                  /\ \E pk \in Range(def.primary_keys.v) :
                        pk \notin KeySet(def.columns.v))
                 => outcome = "ValueError"
    /\ model.constructed
       => /\ model.name # ""
          /\ Len(model.primary_keys) > 0
          /\ Len(model.columns) > 0
          /\ Range(model.primary_keys) \subseteq KeySet(model.columns)

(* C7: serial_primary_keys of a constructed Model is exactly the set of      *)
(* primary-key columns whose type string contains "SERIAL".                  *)
C7_SerialPrimaryKeys ==
    model.constructed
    => Range(model.serial_primary_keys)
         = {col \in KeySet(model.columns) : IsGeneratedKey(model, col)}

(* C8: select sends one statement with one equality condition per entry of   *)
(* where, in the mapping's order (none when where is absent or empty); the   *)
(* parameters are the where values in that order, then limit when it is      *)
(* given (0 included); the limit is a placeholder in the text; the           *)
(* collaborator's rows are returned unchanged.                               *)
C8_Select ==
    (call.op = "select")
    => LET a == call.args
           items == IF a.where.t = "dict" THEN a.where.v ELSE <<>>
           q == sent[1].query
       IN  /\ Len(sent) = 1
           /\ Len(q.where) = Len(items)
           /\ \A i \in 1..Len(items) :
                q.where[i] = [col |-> items[i][1], value |-> "%s"]
           /\ sent[1].values
                = Vals(items) \o (IF a.limit = PyNone THEN <<>> ELSE <<a.limit>>)
           /\ q.limit = (IF a.limit = PyNone THEN <<>> ELSE <<"LIMIT", "%s">>)
           /\ ~a.resp.raises => returned = a.resp.value

\* two conditions with different values and limit = 0
C8_Witness ==
    /\ call.op = "select"
    /\ call.args.where.t = "dict"
    /\ Len(call.args.where.v) = 2
    /\ call.args.where.v[1][2] # call.args.where.v[2][2]
    /\ call.args.limit = PyInt(0)
    /\ outcome = "ok"
    /\ Len(sent[1].values) = 3

(* C9: resetModels on a Database with tables t1..tn issues the drops, then  *)
(* the creates, each in template order; when the collaborator fails on a     *)
(* statement the failure reaches the caller, no later statement is issued    *)
(* and the statements before it stay applied; when none fails, every table   *)
(* of the template exists afterwards.                                        *)
C9_ResetModels ==
    (call.op = "resetModels" /\ db.has_template /\ Len(db.models_names) > 0)
    => LET names == db.models_names
           n == Len(names)
           before == call.args.tables_before
           k == call.args.fail_at
       IN  /\ \A i \in 1..Len(sent) :
                /\ sent[i].method = "execute"
                /\ sent[i].query.kind = (IF i <= n THEN "DROP TABLE IF EXISTS"
                                                   ELSE "CREATE TABLE IF NOT EXISTS")
                /\ sent[i].query.table = names[IF i <= n THEN i ELSE i - n]
           /\ IF k \in 1..(2 * n)
              THEN /\ outcome = "psycopg2.Error"
                   /\ Len(sent) = k
                   /\ tables = (IF k - 1 <= n
                                THEN before \ {names[i] : i \in 1..(k - 1)}
                                ELSE (before \ Range(names))
                                        \cup {names[i] : i \in 1..(k - 1 - n)})
              ELSE /\ outcome = "ok"
                   /\ Len(sent) = 2 * n
                   /\ Range(names) \subseteq tables

\* two tables, the collaborator failing on the second create: both dropped,
\* the first created again, the second left missing
C9_Witness ==
    /\ call.op = "resetModels"
    /\ Len(db.models_names) = 2
    /\ db.models_names[1] # db.models_names[2]
    /\ call.args.fail_at = 4
    /\ call.args.tables_before = Range(db.models_names)
    /\ outcome = "psycopg2.Error"
    /\ tables = {db.models_names[1]}

(* C10: loading a template replaces every entry of the database section      *)
(* whose value is "ENV" by the value of the environment variable named by    *)
(* the entry's key (None when unset) and leaves every literal entry alone.   *)
C10_EnvSubstitution ==
    (call.op = "loadFromFile" /\ outcome = "ok")
    => LET given == call.args.file.database
           env == call.args.env
       IN  /\ Len(template.database) = Len(given)
           /\ \A i \in 1..Len(given) :
                /\ template.database[i][1] = given[i][1]
                /\ template.database[i][2]
                     = (IF given[i][2] = PyStr("ENV") THEN env[given[i][1]]
                                                      ELSE given[i][2])

====
